---- MODULE Spec2Model ----
(***************************************************************************)
(* Model of stummtext.py: a page-size table, a jinja2 template renderer,   *)
(* a pdflatex runner working in a temporary directory, and the pipeline    *)
(* that composes them.  Strings that the code takes apart (file names)     *)
(* are sequences of tokens, a token being "." or a dot-free chunk.         *)
(***************************************************************************)
EXTENDS Integers, Sequences, FiniteSets, TLC

\* ---------------------------------------------------------------- bounds
NumDirs == 3             \* names tempfile may pick for a scratch directory

\* thread 1 is the program's own caller; thread 2 a second, concurrent one
Threads == {1, 2}
Dirs == 1..NumDirs

\* ------------------------------------------------------- page-size table
PaperSize(w, h, n) == [width |-> w, height |-> h, name |-> n]

PAPER_SIZES_INIT ==
  [a3 |-> PaperSize("297mm", "420mm", "A3"),
   a4 |-> PaperSize("210mm", "297mm", "A4"),
   a5 |-> PaperSize("148mm", "210mm", "A5"),
   b5 |-> PaperSize("176mm", "250mm", "B5"),
   letter |-> PaperSize("8.5in", "11in", "US Letter"),
   legal |-> PaperSize("8.5in", "14in", "US Legal"),
   remarkable2 |-> PaperSize("180mm", "250mm", "reMarkable2"),
   phone |-> PaperSize("70mm", "150mm", "phone")]

NoSize == PaperSize("", "", "")

\* keys a caller asks for: the two the module uses, one more preset and
\* one that is not a preset
LookupKeys == {"phone", "remarkable2", "a4", "a6"}

\* d[key] on a dict: the value, or KeyError (a LookupError); the dict is
\* returned as it is left by the subscript
getitem_inserting(d, key) ==
  IF key \in DOMAIN d
    THEN [exc |-> "none", value |-> d[key], dict |-> d]
    ELSE [exc |-> "none", value |-> NoSize,
          dict |-> [k \in DOMAIN d \cup {key} |->
                      IF k = key THEN NoSize ELSE d[k]]]

getitem(d, key) ==
  IF key \in DOMAIN d
    THEN [exc |-> "none", value |-> d[key], dict |-> d]
    ELSE [exc |-> "KeyError", value |-> NoSize, dict |-> d]

\* ------------------------------------------------------------- templates
\* A template is the sequence of its {{ ... }} references.  attr = "" is a
\* plain reference {{ var }}, otherwise {{ var.attr }}.
Ref(v, a) == [var |-> v, attr |-> a]

\* the module's template: pagesize.width, pagesize.height, margin, title,
\* content
template ==
  << Ref("pagesize", "width"), Ref("pagesize", "height"), Ref("margin", ""),
     Ref("title", ""), Ref("content", "") >>

\* a template that refers to a field no data mapping below has
template_content2 == << Ref("title", ""), Ref("content2", "") >>

Templates == {template, template_content2}

testdata ==
  [title |-> "T", content |-> "Hello", pagesize |-> PAPER_SIZES_INIT["a4"],
   margin |-> "2cm"]

testdata_nopagesize == [title |-> "T", content |-> "Hello", margin |-> "2cm"]

Datas == {testdata, testdata_nopagesize}

\* jinja2's default Undefined: a plain reference to a missing name renders
\* as the empty string; an attribute of a missing name raises UndefinedError
RenderRef(r, data) ==
  IF r.var \in DOMAIN data
    THEN (IF r.attr = "" THEN data[r.var]
          ELSE IF r.attr = "width" THEN data[r.var].width
          ELSE IF r.attr = "height" THEN data[r.var].height
          ELSE data[r.var].name)
    ELSE ""

render_template(tpl, data) ==
  IF \E i \in 1..Len(tpl) : tpl[i].attr # "" /\ tpl[i].var \notin DOMAIN data
    THEN [exc |-> "UndefinedError", value |-> << >>]
    ELSE [exc |-> "none",
          value |-> [i \in 1..Len(tpl) |-> RenderRef(tpl[i], data)]]

\* the fields a template refers to that the data mapping does not have
MissingFields(tpl, data) ==
  {tpl[i].var : i \in 1..Len(tpl)} \ DOMAIN data

\* ------------------------------------------------------------ file names
Suffix_pdf == << ".", "pdf" >>

\* index of the last "." of a name, 0 when there is none (str.rfind + 1)
RECURSIVE rfind_dot(_, _)
rfind_dot(name, i) ==
  IF i = 0 THEN 0
  ELSE IF name[i] = "." THEN i
  ELSE rfind_dot(name, i - 1)

\* PurePath.suffix: the last dot starts a suffix unless it is the first or
\* the last character of the name
suffix_start(name) ==
  LET i == rfind_dot(name, Len(name))
  IN IF 1 < i /\ i < Len(name) THEN i ELSE 0

\* PurePath.with_suffix: ValueError on an empty name, else the old suffix
\* (if any) is replaced by the new one
with_suffix_appending(name, suffix) ==
  IF name = << >>
    THEN [exc |-> "ValueError", value |-> << >>]
    ELSE [exc |-> "none", value |-> name \o suffix]

with_suffix(name, suffix) ==
  IF name = << >>
    THEN [exc |-> "ValueError", value |-> << >>]
    ELSE LET i == suffix_start(name)
         IN [exc |-> "none",
             value |-> IF i = 0 THEN name \o suffix
                       ELSE SubSeq(name, 1, i - 1) \o suffix]

\* output_file arguments a caller passes
FileNames ==
  { << >>, << "out" >>, << "out", ".", "tex" >>, << "out", ".", "pdf" >>,
    << ".", "rc" >>, << "out", ".", "tar", ".", "gz" >> }

\* the names concurrent callers pass: the same one or different ones
ConcFileNames == { << "out", ".", "tex" >>, << ".", "rc" >> }

Paths ==
  (FileNames \ {<< >>})
    \cup {with_suffix(n, Suffix_pdf).value : n \in FileNames \ {<< >>}}

\* paths that may hold a file before the program runs
PreExisting == { << "out", ".", "pdf" >>, << "out", ".", "tex" >> }

\* ----------------------------------------------------------------- files
\* kind: "absent", "old" (a file from before the run), "tex", "pdf";
\* of: the markup a tex file holds or a pdf was compiled from
File(k, c, m) == [kind |-> k, complete |-> c, of |-> m]
Absent == File("absent", TRUE, << >>)
Old == File("old", TRUE, << >>)

EmptyDir == [exists |-> FALSE, tex |-> Absent, pdf |-> Absent]

NoResult == [kind |-> "none", stdout |-> "", stderr |-> ""]


\* rename(2) of a workspace file onto a path outside: the destination is
\* replaced by the source in one step
rename(files, src, dst) == [files EXCEPT ![dst] = src]

\* Path.exists() of the engine's output file
exists(f) == f.kind # "absent"

\* subprocess.run(check=True): a non-zero exit status raises
\* CalledProcessError carrying the captured streams
check_returncode_unchecked(code, out, err) == NoResult

check_returncode(code, out, err) ==
  IF code # 0
    THEN [kind |-> "CalledProcessError", stdout |-> out, stderr |-> err]
    ELSE NoResult

\* tempfile: a directory name that does not exist yet
mkdtemp_fixed(w) == {1}

mkdtemp(w) == {d \in Dirs : ~w[d].exists}

\* TemporaryDirectory.__exit__: the directory and its files are removed,
\* whatever exception e is leaving the with block
cleanup_on_success(w, d, e) ==
  IF e = "none" THEN [w EXCEPT ![d] = EmptyDir] ELSE w

cleanup(w, d, e) == [w EXCEPT ![d] = EmptyDir]

\* ----------------------------------------------------------------- state
VARIABLES
  PAPER_SIZES,    \* the module-level dict
  lookup_result,  \* outcome of the caller's last PAPER_SIZES[key]
  fs,             \* files outside the scratch directories, by path
  ws,             \* the scratch directories, by name
  call,           \* per caller: position in process_document and locals
  pre,            \* per caller: fs as it was when the call was made
  relocated       \* per path: markup of the call that renamed onto it last

vars == << PAPER_SIZES, lookup_result, fs, ws, call, pre, relocated >>

Idle ==
  [pc |-> "idle", template |-> << >>, data |-> [title |-> ""],
   output_file |-> << >>, input_tex |-> << >>, output_path |-> << >>,
   tmpdir |-> 0, child |-> "none", returncode |-> 0, produced |-> FALSE,
   stdout |-> "",
   stderr |-> "", e |-> NoResult, result |-> NoResult,
   spawned |-> 0, written |-> 0]

NotRelocated == [set |-> FALSE, of |-> << >>]

Init ==
  /\ PAPER_SIZES = PAPER_SIZES_INIT
  /\ lookup_result = [key |-> "", exc |-> "none", value |-> NoSize]
  /\ \E S \in SUBSET PreExisting :
       fs = [p \in Paths |-> IF p \in S THEN Old ELSE Absent]
  /\ ws = [d \in Dirs |-> EmptyDir]
  /\ call = [t \in Threads |-> Idle]
  /\ pre = [t \in Threads |-> [p \in Paths |-> Absent]]
  /\ relocated = [p \in Paths |-> NotRelocated]

\* --------------------------------------------------------------- actions
\* PAPER_SIZES[key] by the caller
lookup(key) ==
  LET r == getitem(PAPER_SIZES, key)
  IN /\ PAPER_SIZES' = r.dict
     /\ lookup_result' = [key |-> key, exc |-> r.exc, value |-> r.value]
     /\ UNCHANGED << fs, ws, call, pre, relocated >>

\* process_document(template, data, output_file) is called
process_document(t, tpls, datas, names) ==
  /\ call[t].pc = "idle"
  /\ \E tpl \in tpls, data \in datas, name \in names :
       call' = [call EXCEPT ![t] =
                  [Idle EXCEPT !.pc = "render_template", !.template = tpl,
                               !.data = data, !.output_file = name]]
  /\ pre' = [pre EXCEPT ![t] = fs]
  /\ UNCHANGED << PAPER_SIZES, lookup_result, fs, ws, relocated >>

\* an exception leaves process_document
Raise(c, exc) == [c EXCEPT !.pc = "done", !.result = exc]

\* pipeline(data), first stage: render_template
render_template_step(t) ==
  /\ call[t].pc = "render_template"
  /\ LET r == render_template(call[t].template, call[t].data)
     IN call' = [call EXCEPT ![t] =
                   IF r.exc # "none"
                     THEN Raise(@, [kind |-> r.exc, stdout |-> "",
                                    stderr |-> ""])
                     ELSE [@ EXCEPT !.pc = "render_latex",
                                    !.input_tex = r.value]]
  /\ UNCHANGED << PAPER_SIZES, lookup_result, fs, ws, pre, relocated >>

\* render_latex: the output path is the file name with suffix .pdf
render_latex(t) ==
  /\ call[t].pc = "render_latex"
  /\ LET r == with_suffix(call[t].output_file, Suffix_pdf)
     IN call' = [call EXCEPT ![t] =
                   IF r.exc # "none"
                     THEN Raise(@, [kind |-> r.exc, stdout |-> "",
                                    stderr |-> ""])
                     ELSE [@ EXCEPT !.pc = "TemporaryDirectory",
                                    !.output_path = r.value]]
  /\ UNCHANGED << PAPER_SIZES, lookup_result, fs, ws, pre, relocated >>

\* run_latex: with tempfile.TemporaryDirectory() as tmpdir
TemporaryDirectory(t) ==
  /\ call[t].pc = "TemporaryDirectory"
  /\ \E d \in mkdtemp(ws) :
       /\ ws' = [ws EXCEPT ![d].exists = TRUE]
       /\ call' = [call EXCEPT ![t].pc = "write_text", ![t].tmpdir = d]
  /\ UNCHANGED << PAPER_SIZES, lookup_result, fs, pre, relocated >>

\* tex_path.write_text(input_tex)
write_text(t) ==
  /\ call[t].pc = "write_text"
  /\ ws' = [ws EXCEPT ![call[t].tmpdir].tex =
                        File("tex", TRUE, call[t].input_tex)]
  /\ call' = [call EXCEPT ![t].pc = "run"]
  /\ UNCHANGED << PAPER_SIZES, lookup_result, fs, pre, relocated >>

\* latex_cmd([...]): the child process is started
run(t) ==
  /\ call[t].pc = "run"
  /\ call' = [call EXCEPT ![t].pc = "wait", ![t].child = "running",
                          ![t].spawned = @ + 1]
  /\ UNCHANGED << PAPER_SIZES, lookup_result, fs, ws, pre, relocated >>

\* pdflatex, running in tmpdir, writes input.pdf from input.tex: first an
\* incomplete file, then the complete one
pdflatex_write(t) ==
  /\ call[t].child = "running"
  /\ LET d == call[t].tmpdir
     IN /\ ws[d].tex.kind = "tex"
        /\ \/ /\ ws[d].pdf.kind = "absent"
              /\ ws' = [ws EXCEPT ![d].pdf = File("pdf", FALSE, ws[d].tex.of)]
           \/ /\ ws[d].pdf.kind = "pdf" /\ ~ws[d].pdf.complete
              /\ ws' = [ws EXCEPT ![d].pdf = File("pdf", TRUE, @.of)]
  /\ UNCHANGED << PAPER_SIZES, lookup_result, fs, call, pre, relocated >>

\* pdflatex exits; with status zero it leaves no incomplete input.pdf
pdflatex_exit(t) ==
  /\ call[t].child = "running"
  /\ \E code \in {0, 1} :
       /\ code = 0 => ws[call[t].tmpdir].pdf.complete
       /\ call' = [call EXCEPT ![t].child = "exited",
                               ![t].returncode = code,
                               ![t].produced =
                                 ws[call[t].tmpdir].pdf.kind # "absent",
                               ![t].stdout = "captured stdout",
                               ![t].stderr = "captured stderr"]
  /\ UNCHANGED << PAPER_SIZES, lookup_result, fs, ws, pre, relocated >>

\* run(..., check=True) returns or raises CalledProcessError
run_returns(t) ==
  /\ call[t].pc = "wait"
  /\ call[t].child = "exited"
  /\ LET e == check_returncode(call[t].returncode, call[t].stdout,
                               call[t].stderr)
     IN call' = [call EXCEPT ![t] =
                   IF e.kind # "none"
                     THEN [@ EXCEPT !.pc = "exit_with", !.e = e]
                     ELSE [@ EXCEPT !.pc = "exists"]]
  /\ UNCHANGED << PAPER_SIZES, lookup_result, fs, ws, pre, relocated >>

\* if output_pdf.exists():
output_pdf_exists(t) ==
  /\ call[t].pc = "exists"
  /\ call' = [call EXCEPT ![t].pc =
                IF exists(ws[call[t].tmpdir].pdf) THEN "rename"
                ELSE "exit_with"]
  /\ UNCHANGED << PAPER_SIZES, lookup_result, fs, ws, pre, relocated >>

\* output_pdf.rename(output_path): the file moves, or OSError is raised
\* (destination not writable, other file system, source gone)
output_pdf_rename(t) ==
  /\ call[t].pc = "rename"
  /\ LET d == call[t].tmpdir
         p == call[t].output_path
     IN \/ /\ ws[d].pdf.kind # "absent"
           /\ fs' = rename(fs, ws[d].pdf, p)
           /\ ws' = [ws EXCEPT ![d].pdf = Absent]
           /\ relocated' = [relocated EXCEPT ![p] =
                              [set |-> TRUE, of |-> call[t].input_tex]]
           /\ call' = [call EXCEPT ![t].pc = "exit_with",
                                   ![t].written = @ + 1]
        \/ /\ call' = [call EXCEPT ![t].pc = "exit_with",
                                   ![t].e = [kind |-> "OSError",
                                             stdout |-> "", stderr |-> ""]]
           /\ UNCHANGED << fs, ws, relocated >>
  /\ UNCHANGED << PAPER_SIZES, lookup_result, pre >>

\* the with block is left: the directory is removed; CalledProcessError is
\* caught by the except clause, anything else leaves run_latex
exit_with(t) ==
  /\ call[t].pc = "exit_with"
  /\ ws' = cleanup(ws, call[t].tmpdir, call[t].e.kind)
  /\ call' = [call EXCEPT ![t] =
                IF @.e.kind = "CalledProcessError"
                  THEN [@ EXCEPT !.pc = "breakpoint"]
                ELSE IF @.e.kind = "none"
                  THEN [@ EXCEPT !.pc = "done",
                                 !.result = [kind |-> "returned",
                                             stdout |-> "", stderr |-> ""]]
                ELSE Raise(@, @.e)]
  /\ UNCHANGED << PAPER_SIZES, lookup_result, fs, pre, relocated >>

\* except CalledProcessError: breakpoint() -- a no-op when the hook is
\* disabled (PYTHONBREAKPOINT=0), else the process stops in pdb
breakpoint(t) ==
  /\ call[t].pc = "breakpoint"
  /\ \E next \in {"raise", "pdb"} : call' = [call EXCEPT ![t].pc = next]
  /\ UNCHANGED << PAPER_SIZES, lookup_result, fs, ws, pre, relocated >>

\* the person at the pdb prompt types "continue"
pdb_continue(t) ==
  /\ call[t].pc = "pdb"
  /\ call' = [call EXCEPT ![t].pc = "raise"]
  /\ UNCHANGED << PAPER_SIZES, lookup_result, fs, ws, pre, relocated >>

\* "quit", or end of input on stdin: pdb raises BdbQuit
pdb_quit(t) ==
  /\ call[t].pc = "pdb"
  /\ call' = [call EXCEPT ![t] =
                Raise(@, [kind |-> "BdbQuit", stdout |-> "", stderr |-> ""])]
  /\ UNCHANGED << PAPER_SIZES, lookup_result, fs, ws, pre, relocated >>

\* raise: the CalledProcessError goes on to the caller
reraise(t) ==
  /\ call[t].pc = "raise"
  /\ call' = [call EXCEPT ![t] = Raise(@, @.e)]
  /\ UNCHANGED << PAPER_SIZES, lookup_result, fs, ws, pre, relocated >>

\* the caller has the outcome and goes on (to its next call)
returned(t) ==
  /\ call[t].pc = "done"
  /\ call' = [call EXCEPT ![t] = Idle]
  /\ UNCHANGED << PAPER_SIZES, lookup_result, fs, ws, pre, relocated >>

step(t) ==
  \/ render_template_step(t)
  \/ render_latex(t)
  \/ TemporaryDirectory(t)
  \/ write_text(t)
  \/ run(t)
  \/ pdflatex_write(t)
  \/ pdflatex_exit(t)
  \/ run_returns(t)
  \/ output_pdf_exists(t)
  \/ output_pdf_rename(t)
  \/ exit_with(t)
  \/ breakpoint(t)
  \/ pdb_continue(t)
  \/ pdb_quit(t)
  \/ reraise(t)

\* the program as written: one caller, one call after the other
Next ==
  \/ \E key \in LookupKeys : lookup(key)
  \/ process_document(1, Templates, Datas, FileNames)
  \/ step(1)
  \/ returned(1)

Spec == Init /\ [][Next]_vars

\* concurrent callers: each thread makes one call, the calls interleave
NextConc ==
  \E t \in Threads :
    \/ process_document(t, Templates, {testdata}, ConcFileNames)
    \/ step(t)

SpecConc == Init /\ [][NextConc]_vars


\* ---------------------------------------------------------------- claims
Finished(t) == call[t].pc = "done"

\* the call got as far as run_latex and the engine has exited
EngineExited(t) == call[t].child = "exited"

\* positions inside the with block of run_latex
InWith == {"write_text", "run", "wait", "exists", "rename", "exit_with"}

Pdf(m) == File("pdf", TRUE, m)

\* C1: once a call whose engine exited non-zero has finished, its outcome
\* is the CalledProcessError and the file at the output path is the one
\* that was there when the call was made.
C1_EngineFailureIsCompilationError ==
  \A t \in Threads :
    (Finished(t) /\ EngineExited(t) /\ call[t].returncode # 0)
      => /\ call[t].result.kind = "CalledProcessError"
         /\ fs[call[t].output_path] = pre[t][call[t].output_path]

\* C2: a call whose engine exited with status zero without leaving
\* input.pdf never finishes by returning normally.
C2_MissingArtifactIsFailure ==
  \A t \in Threads :
    (Finished(t) /\ EngineExited(t) /\ call[t].returncode = 0
       /\ ~call[t].produced)
      => call[t].result.kind # "returned"

\* C3: a scratch directory exists only while the call that created it is
\* inside its with block; a directory that does not exist holds no file.
\* So every finished call, however it finished, has left nothing behind.
C3_WorkspaceRemoved ==
  \A d \in Dirs :
    /\ ws[d].exists =>
         \E t \in Threads : call[t].tmpdir = d /\ call[t].pc \in InWith
    /\ ~ws[d].exists => ws[d].tex = Absent /\ ws[d].pdf = Absent

\* C3 witness: a call has finished by a failed relocation, after its
\* engine produced input.pdf, and no scratch directory exists.
C3_Witness ==
  /\ Finished(1)
  /\ call[1].result.kind = "OSError"
  /\ call[1].produced
  /\ call[1].tmpdir \in Dirs
  /\ \A d \in Dirs : ~ws[d].exists

\* C4: a call whose template refers to a field the data mapping lacks
\* gets no further than rendering: it ends with the render error, having
\* created no scratch directory and spawned no child.
C4_MissingFieldFailsBeforeSpawn ==
  \A t \in Threads :
    (MissingFields(call[t].template, call[t].data) # {}
       /\ call[t].pc \notin {"idle", "render_template"})
      => /\ Finished(t)
         /\ call[t].result.kind = "UndefinedError"
         /\ call[t].spawned = 0
         /\ call[t].tmpdir = 0

\* run_latex was entered by the call
Compiled(t) == call[t].result.kind \notin {"none", "UndefinedError", "ValueError"}

\* C5: a finished call of run_latex has spawned exactly one child, and has
\* written one file outside the scratch directory if it returned normally,
\* none if it raised.
C5_OneChildOneFile ==
  \A t \in Threads :
    (Finished(t) /\ Compiled(t))
      => /\ call[t].spawned = 1
         /\ call[t].result.kind = "returned" => call[t].written = 1
         /\ call[t].result.kind # "returned" => call[t].written = 0

\* what "the extension replaced by .pdf" means for each name a caller passes
NormalizedName(name) ==
  CASE name = << "out" >> -> << "out", ".", "pdf" >>
    [] name = << "out", ".", "tex" >> -> << "out", ".", "pdf" >>
    [] name = << "out", ".", "pdf" >> -> << "out", ".", "pdf" >>
    [] name = << ".", "rc" >> -> << ".", "rc", ".", "pdf" >>
    [] name = << "out", ".", "tar", ".", "gz" >>
         -> << "out", ".", "tar", ".", "pdf" >>
    [] OTHER -> << >>

\* the artifact of call t is at the normalized path, and the path the
\* caller named, when it is another one, is as it was before the call
ArtifactAtNormalizedPath(t) ==
  /\ call[t].output_path = NormalizedName(call[t].output_file)
  /\ fs[call[t].output_path] = Pdf(call[t].input_tex)
  /\ call[t].output_file # call[t].output_path
       => fs[call[t].output_file] = pre[t][call[t].output_file]

C7_NoPartialArtifact ==
  \A t \in Threads :
    call[t].output_path # << >> =>
      LET p == call[t].output_path
      IN /\ \/ fs[p] = pre[t][p]
            \/ fs[p] = Pdf(call[t].input_tex)
         /\ fs[p] # pre[t][p] =>
              call[t].written = 1 /\ call[t].pc \in {"exit_with", "done"}
         /\ call[t].written = 0 => fs = pre[t]

\* C7 witness: the engine has left an incomplete input.pdf in the scratch
\* directory and exited non-zero, and the old file at the output path is
\* still there.
C7_Witness ==
  /\ call[1].pc = "wait"
  /\ EngineExited(1)
  /\ call[1].returncode # 0
  /\ ~ws[call[1].tmpdir].pdf.complete
  /\ fs[call[1].output_path] = Old

\* C8: concurrent calls are in different scratch directories; what each
\* finds in its own is its own markup and the pdf made from it; a path
\* that calls have renamed onto holds the complete artifact of the call
\* that did so last.
C8_IsolatedLastWriterWins ==
  /\ \A t1, t2 \in Threads :
       (t1 # t2 /\ call[t1].pc \in InWith /\ call[t2].pc \in InWith)
         => call[t1].tmpdir # call[t2].tmpdir
  /\ \A t \in Threads :
       call[t].pc \in {"run", "wait", "exists", "rename"} =>
         LET w == ws[call[t].tmpdir]
         IN /\ w.exists
            /\ w.tex = File("tex", TRUE, call[t].input_tex)
            /\ w.pdf # Absent => w.pdf.of = call[t].input_tex
  /\ \A p \in Paths :
       relocated[p].set => fs[p] = Pdf(relocated[p].of)

\* C8 witness: two calls with different markup and the same output path
\* have both relocated; the path holds the artifact of the second thread.
C8_Witness ==
  /\ call[1].written = 1
  /\ call[2].written = 1
  /\ call[1].output_path = call[2].output_path
  /\ call[1].input_tex # call[2].input_tex
  /\ fs[call[1].output_path] = Pdf(call[2].input_tex)

\* C9: no call is ever stopped in the debugger, and a finished call whose
\* engine exited non-zero has the CalledProcessError with the captured
\* streams as its outcome.
C9_DiagnosticsReachCaller ==
  \A t \in Threads :
    /\ call[t].pc # "pdb"
    /\ (Finished(t) /\ EngineExited(t) /\ call[t].returncode # 0)
         => call[t].result =
              [kind |-> "CalledProcessError", stdout |-> call[t].stdout,
               stderr |-> call[t].stderr]

\* C10: the table is the initial one in every state; a lookup of a key
\* that is not a preset has raised KeyError, a lookup of a preset has
\* given the preset.
C10_RegistryUnchanged ==
  /\ DOMAIN PAPER_SIZES =
       {"a3", "a4", "a5", "b5", "letter", "legal", "remarkable2", "phone"}
  /\ PAPER_SIZES = PAPER_SIZES_INIT
  /\ lookup_result.key # "" =>
       IF lookup_result.key \in DOMAIN PAPER_SIZES_INIT
         THEN /\ lookup_result.exc = "none"
              /\ lookup_result.value = PAPER_SIZES_INIT[lookup_result.key]
         ELSE lookup_result.exc = "KeyError"

\* C10 witness: a lookup of a key that is not a preset has failed after a
\* pipeline call has finished.
C10_Witness ==
  /\ lookup_result.key = "a6"
  /\ lookup_result.exc = "KeyError"
  /\ Finished(1)
  /\ call[1].result.kind = "returned"

====
